---- MODULE Spec2Model ----
(***************************************************************************)
(* Model of k8s/upgrade-job/src/helm/chart.rs: the serde schema of a helm  *)
(* chart's Chart.yaml (Chart) and of the umbrella chart's values.yaml      *)
(* (UmbrellaValues -> CoreValues -> Image / IoEngine / Agents -> Core ->   *)
(* Capacity -> Thin), and the getters of those structs.                    *)
(*                                                                         *)
(* A text string is a sequence of one-character strings, so that key       *)
(* renaming (camelCase), version parsing and "returned unchanged" are      *)
(* computed on characters.  A document is a generic tree of nodes.         *)
(***************************************************************************)
EXTENDS Integers, Sequences, FiniteSets, TLC

VARIABLES target, doc, decoded, first, last, ncalls

vars == <<target, doc, decoded, first, last, ncalls>>

(***************************************************************************)
(* Bounds of the model.                                                    *)
(***************************************************************************)
\* longest version string enumerated exhaustively over VerAlphabet
MaxVerLen == 5
\* how many times each getter is called on one decoded value
MaxCalls == 2

(***************************************************************************)
(* Characters and identifiers.                                             *)
(***************************************************************************)
LowerCase == <<"a","b","c","d","e","f","g","h","i","j","k","l","m",
               "n","o","p","q","r","s","t","u","v","w","x","y","z">>
UpperCase == <<"A","B","C","D","E","F","G","H","I","J","K","L","M",
               "N","O","P","Q","R","S","T","U","V","W","X","Y","Z">>
Digit == {"0","1","2","3","4","5","6","7","8","9"}

Range(s) == {s[i] : i \in DOMAIN s}

to_ascii_uppercase(c) ==
    IF c \in Range(LowerCase)
    THEN UpperCase[CHOOSE i \in DOMAIN LowerCase : LowerCase[i] = c]
    ELSE c

to_ascii_lowercase(c) ==
    IF c \in Range(UpperCase)
    THEN LowerCase[CHOOSE i \in DOMAIN UpperCase : UpperCase[i] = c]
    ELSE c

\* The Rust field identifiers of the structs, and the one explicit rename.
f_name == <<"n","a","m","e">>
f_version == <<"v","e","r","s","i","o","n">>
f_core == <<"c","o","r","e">>
f_image == <<"i","m","a","g","e">>
f_io_engine == <<"i","o","_","e","n","g","i","n","e">>
f_agents == <<"a","g","e","n","t","s">>
f_tag == <<"t","a","g">>
f_log_level == <<"l","o","g","_","l","e","v","e","l">>
f_capacity == <<"c","a","p","a","c","i","t","y">>
f_thin == <<"t","h","i","n">>
f_pool_commitment == <<"p","o","o","l","_","c","o","m","m","i","t","m","e","n","t">>
f_volume_commitment ==
    <<"v","o","l","u","m","e","_","c","o","m","m","i","t","m","e","n","t">>
f_volume_commitment_initial ==
    <<"v","o","l","u","m","e","_","c","o","m","m","i","t","m","e","n","t",
      "_","i","n","i","t","i","a","l">>
mayastor == <<"m","a","y","a","s","t","o","r">>

\* #[serde(rename_all(deserialize = "camelCase"))]: the field identifier is
\* turned to PascalCase (drop each '_' and upper-case the character after
\* it, and the first one), then its first character is lower-cased.
RECURSIVE PascalFrom(_, _, _)
PascalFrom(field, i, capitalize) ==
    IF i > Len(field) THEN <<>>
    ELSE IF field[i] = "_" THEN PascalFrom(field, i + 1, TRUE)
    ELSE IF capitalize
         THEN <<to_ascii_uppercase(field[i])>> \o PascalFrom(field, i + 1, FALSE)
         ELSE <<field[i]>> \o PascalFrom(field, i + 1, FALSE)

PascalCase(field) == PascalFrom(field, 1, TRUE)

CamelCase(field) ==
    LET pascal == PascalCase(field)
    IN  IF pascal = <<>> THEN pascal
        ELSE <<to_ascii_lowercase(pascal[1])>> \o Tail(pascal)

\* A struct without rename_all: the document key is the field identifier.
NoRename(field) == field

(***************************************************************************)
(* Documents: the generic tree the deserializer walks.                     *)
(***************************************************************************)
Null == [kind |-> "null", str |-> <<>>, map |-> <<>>]
Num == [kind |-> "num", str |-> <<>>, map |-> <<>>]
Str(s) == [kind |-> "str", str |-> s, map |-> <<>>]
Map(f) == [kind |-> "map", str |-> <<>>, map |-> f]
EmptyMap == Map(<<>>)
\* what stands under a key the mapping does not have
Missing == [kind |-> "missing", str |-> <<>>, map |-> <<>>]

\* A mapping from a set of <<key, node>> pairs with distinct keys.
Obj(pairs) ==
    Map([k \in {p[1] : p \in pairs} |-> (CHOOSE p \in pairs : p[1] = k)[2]])

HasKey(node, key) == node.kind = "map" /\ key \in DOMAIN node.map

(***************************************************************************)
(* Results.                                                                *)
(***************************************************************************)
SchemaError == "SchemaError"
ThinProvisioningOptionsAbsent == "ThinProvisioningOptionsAbsent"

Ok(v) == [tag |-> "Ok", val |-> <<v>>, err |-> ""]
Err(e) == [tag |-> "Err", val |-> <<>>, err |-> e]
IsOk(r) == r.tag = "Ok"
Unwrap(r) == r.val[1]

(***************************************************************************)
(* semver::Version, as Version::deserialize reads it from a string:        *)
(* MAJOR.MINOR.PATCH[-PRERELEASE][+BUILD].                                 *)
(***************************************************************************)
IdentChar == Digit \cup Range(LowerCase) \cup Range(UpperCase) \cup {"-"}

RECURSIVE DigitsEnd(_, _)
\* the position after the run of digits that starts at i
DigitsEnd(s, i) ==
    IF i <= Len(s) /\ s[i] \in Digit THEN DigitsEnd(s, i + 1) ELSE i

DigitValue(c) ==
    CHOOSE n \in 0..9 : <<"0","1","2","3","4","5","6","7","8","9">>[n + 1] = c

RECURSIVE NumberValue(_, _, _)
\* the value of the digits s[i..j-1]
NumberValue(s, i, j) ==
    IF j <= i THEN 0
    ELSE 10 * NumberValue(s, i, j - 1) + DigitValue(s[j - 1])

\* a numeric identifier at i: at least one digit, no leading zero
numeric_identifier(s, i) ==
    LET j == DigitsEnd(s, i)
    IN  IF j = i THEN Err(SchemaError)
        ELSE IF s[i] = "0" /\ j > i + 1 THEN Err(SchemaError)
        ELSE Ok([value |-> NumberValue(s, i, j), pos |-> j])

AllDigits(s, i, j) == \A k \in i..(j - 1) : s[k] \in Digit

RECURSIVE identifier(_, _, _, _)
\* a dot-separated identifier from i, whose current segment began at seg:
\* no segment is empty and, in a pre-release, no numeric segment has a
\* leading zero.  Ends at the first character that is neither an
\* identifier character nor a dot, and yields that position.
identifier(s, i, seg, prerelease) ==
    LET segment_ok ==
            /\ i > seg
            /\ ~(prerelease /\ i > seg + 1 /\ s[seg] = "0" /\ AllDigits(s, seg, i))
    IN  IF i <= Len(s) /\ s[i] \in IdentChar
        THEN identifier(s, i + 1, seg, prerelease)
        ELSE IF ~segment_ok THEN Err(SchemaError)
        ELSE IF i <= Len(s) /\ s[i] = "."
        THEN identifier(s, i + 1, i + 1, prerelease)
        ELSE Ok(i)

IdentifierFrom(s, i, prerelease) ==
    LET r == identifier(s, i, i, prerelease)
    IN  IF IsOk(r)
        THEN Ok([value |-> SubSeq(s, i, Unwrap(r) - 1), pos |-> Unwrap(r)])
        ELSE r

At(s, i, c) == i <= Len(s) /\ s[i] = c

VersionTail(s, major, minor, patch, i) ==
    LET pre == IF At(s, i, "-") THEN IdentifierFrom(s, i + 1, TRUE)
               ELSE Ok([value |-> <<>>, pos |-> i])
    IN  IF ~IsOk(pre) THEN Err(SchemaError)
        ELSE
          LET j == Unwrap(pre).pos
              build == IF At(s, j, "+") THEN IdentifierFrom(s, j + 1, FALSE)
                       ELSE Ok([value |-> <<>>, pos |-> j])
          IN  IF ~IsOk(build) THEN Err(SchemaError)
              ELSE IF Unwrap(build).pos <= Len(s) THEN Err(SchemaError)
              ELSE Ok([major |-> major, minor |-> minor, patch |-> patch,
                       pre |-> Unwrap(pre).value, build |-> Unwrap(build).value])

VersionFromStr(s) ==
    LET major == numeric_identifier(s, 1)
    IN  IF ~IsOk(major) THEN Err(SchemaError)
        ELSE IF ~At(s, Unwrap(major).pos, ".") THEN Err(SchemaError)
        ELSE
          LET minor == numeric_identifier(s, Unwrap(major).pos + 1)
          IN  IF ~IsOk(minor) THEN Err(SchemaError)
              ELSE IF ~At(s, Unwrap(minor).pos, ".") THEN Err(SchemaError)
              ELSE
                LET patch == numeric_identifier(s, Unwrap(minor).pos + 1)
                IN  IF ~IsOk(patch) THEN Err(SchemaError)
                    ELSE VersionTail(s, Unwrap(major).value, Unwrap(minor).value,
                                     Unwrap(patch).value, Unwrap(patch).pos)

\* #[serde(deserialize_with = "Version::deserialize")]: a string, parsed.
VersionDeserialize(node) ==
    IF node.kind = "str" THEN VersionFromStr(node.str) ELSE Err(SchemaError)

(***************************************************************************)
(* The derived Deserialize implementations.  A struct is read from a       *)
(* mapping; a key that matches no field is ignored; a field whose key is   *)
(* missing is an error unless the field is an Option.                      *)
(***************************************************************************)
DeString(node) ==
    IF node.kind = "str" THEN Ok(node.str) ELSE Err(SchemaError)

\* The node under a key of a mapping, or Missing.  A missing field is an
\* error for every type but Option: no decoder below accepts Missing.
Field(node, key) ==
    IF key \in DOMAIN node.map THEN node.map[key] ELSE Missing

\* The document key of each struct's fields.
ChartKey(field) == NoRename(field)
\* as if the rename to "mayastor" were left out
Mutant_UmbrellaValuesKey_norename(field) == NoRename(field)

UmbrellaValuesKey(field) == IF field = f_core THEN mayastor ELSE NoRename(field)
\* as if CoreValues carried rename_all = "camelCase"
Mutant_CoreValuesKey_camel(field) == CamelCase(field)

CoreValuesKey(field) == NoRename(field)
ImageKey(field) == NoRename(field)
IoEngineKey(field) == CamelCase(field)
AgentsKey(field) == NoRename(field)
CoreKey(field) == NoRename(field)
CapacityKey(field) == NoRename(field)
ThinKey(field) == CamelCase(field)

\* as if `name` carried #[serde(default)]
Mutant_DeChartName_default(node) ==
    IF ChartKey(f_name) \in DOMAIN node.map
    THEN DeString(node.map[ChartKey(f_name)]) ELSE Ok(<<>>)

\* as if an empty name were rejected at decode
Mutant_DeChartName_nonempty(node) ==
    LET r == DeString(Field(node, ChartKey(f_name)))
    IN  IF IsOk(r) /\ Unwrap(r) = <<>> THEN Err(SchemaError) ELSE r

DeChartName(node) == DeString(Field(node, ChartKey(f_name)))

DeChart(node) ==
    IF node.kind # "map" THEN Err(SchemaError)
    ELSE LET name == DeChartName(node)
             version == VersionDeserialize(Field(node, ChartKey(f_version)))
         IN  IF IsOk(name) /\ IsOk(version)
             THEN Ok([name |-> Unwrap(name), version |-> Unwrap(version)])
             ELSE Err(SchemaError)

DeThin(node) ==
    IF node.kind # "map" THEN Err(SchemaError)
    ELSE LET pool_commitment ==
                 DeString(Field(node, ThinKey(f_pool_commitment)))
             volume_commitment ==
                 DeString(Field(node, ThinKey(f_volume_commitment)))
             volume_commitment_initial ==
                 DeString(Field(node, ThinKey(f_volume_commitment_initial)))
         IN  IF /\ IsOk(pool_commitment)
                /\ IsOk(volume_commitment)
                /\ IsOk(volume_commitment_initial)
             THEN Ok([pool_commitment |-> Unwrap(pool_commitment),
                      volume_commitment |-> Unwrap(volume_commitment),
                      volume_commitment_initial |->
                          Unwrap(volume_commitment_initial)])
             ELSE Err(SchemaError)

DeCapacity(node) ==
    IF node.kind # "map" THEN Err(SchemaError)
    ELSE LET thin == DeThin(Field(node, CapacityKey(f_thin)))
         IN  IF IsOk(thin) THEN Ok([thin |-> Unwrap(thin)])
             ELSE Err(SchemaError)

\* as if the field were `capacity: Capacity`
Mutant_DeCoreCapacity_required(node) ==
    LET r == DeCapacity(Field(node, CoreKey(f_capacity)))
    IN  IF IsOk(r) THEN Ok({Unwrap(r)}) ELSE r

\* as if a capacity that does not decode were taken for None
Mutant_DeCoreCapacity_lenient(node) ==
    LET r == DeCapacity(Field(node, CoreKey(f_capacity)))
    IN  IF IsOk(r) THEN Ok({Unwrap(r)}) ELSE Ok({})

\* Option<Capacity>: None for a missing key or a null, else Some of
\* Capacity's decode.
DeCoreCapacity(node) ==
    LET capacity == Field(node, CoreKey(f_capacity))
    IN  IF capacity.kind \in {"missing", "null"} THEN Ok({})
        ELSE LET r == DeCapacity(capacity)
             IN  IF IsOk(r) THEN Ok({Unwrap(r)}) ELSE r

DeCore(node) ==
    IF node.kind # "map" THEN Err(SchemaError)
    ELSE LET capacity == DeCoreCapacity(node)
         IN  IF IsOk(capacity) THEN Ok([capacity |-> Unwrap(capacity)])
             ELSE Err(SchemaError)

DeAgents(node) ==
    IF node.kind # "map" THEN Err(SchemaError)
    ELSE LET core == DeCore(Field(node, AgentsKey(f_core)))
         IN  IF IsOk(core) THEN Ok([core |-> Unwrap(core)])
             ELSE Err(SchemaError)

\* as if `tag` carried #[serde(default)]
Mutant_DeImageTag_default(node) ==
    IF ImageKey(f_tag) \in DOMAIN node.map
    THEN DeString(node.map[ImageKey(f_tag)]) ELSE Ok(<<>>)

DeImageTag(node) == DeString(Field(node, ImageKey(f_tag)))

DeImage(node) ==
    IF node.kind # "map" THEN Err(SchemaError)
    ELSE LET tag == DeImageTag(node)
         IN  IF IsOk(tag) THEN Ok([tag |-> Unwrap(tag)])
             ELSE Err(SchemaError)

DeIoEngine(node) ==
    IF node.kind # "map" THEN Err(SchemaError)
    ELSE LET log_level == DeString(Field(node, IoEngineKey(f_log_level)))
         IN  IF IsOk(log_level) THEN Ok([log_level |-> Unwrap(log_level)])
             ELSE Err(SchemaError)

DeCoreValues(node) ==
    IF node.kind # "map" THEN Err(SchemaError)
    ELSE LET image == DeImage(Field(node, CoreValuesKey(f_image)))
             io_engine == DeIoEngine(Field(node, CoreValuesKey(f_io_engine)))
             agents == DeAgents(Field(node, CoreValuesKey(f_agents)))
         IN  IF IsOk(image) /\ IsOk(io_engine) /\ IsOk(agents)
             THEN Ok([image |-> Unwrap(image), io_engine |-> Unwrap(io_engine),
                      agents |-> Unwrap(agents)])
             ELSE Err(SchemaError)

DeUmbrellaValues(node) ==
    IF node.kind # "map" THEN Err(SchemaError)
    ELSE LET core == DeCoreValues(Field(node, UmbrellaValuesKey(f_core)))
         IN  IF IsOk(core) THEN Ok([core |-> Unwrap(core)])
             ELSE Err(SchemaError)

(***************************************************************************)
(* The getters.  An Option is a set of at most one element.                *)
(***************************************************************************)
Chart_name(self) == self.name
Chart_version(self) == self.version

Thin_pool_commitment(self) == self.pool_commitment
\* as if the getter cloned the neighbouring field
Mutant_Thin_volume_commitment_swapped(self) == self.volume_commitment_initial

Thin_volume_commitment(self) == self.volume_commitment
Thin_volume_commitment_initial(self) == self.volume_commitment_initial

Capacity_thin_pool_commitment(self) == Thin_pool_commitment(self.thin)
Capacity_thin_volume_commitment(self) == Thin_volume_commitment(self.thin)
Capacity_thin_volume_commitment_initial(self) ==
    Thin_volume_commitment_initial(self.thin)

\* Option::as_ref().ok_or(ThinProvisioningOptionsAbsent.build())
CapacityOrAbsent(capacity) ==
    IF capacity = {} THEN Err(ThinProvisioningOptionsAbsent)
    ELSE Ok(CHOOSE c \in capacity : TRUE)

Core_capacity_is_absent(self) == self.capacity = {}

Core_thin_pool_commitment(self) ==
    LET c == CapacityOrAbsent(self.capacity)
    IN  IF IsOk(c) THEN Ok(Capacity_thin_pool_commitment(Unwrap(c))) ELSE c

\* as if an absent capacity yielded an empty string (unwrap_or_default)
Mutant_Core_thin_volume_commitment_default(self) ==
    IF self.capacity = {} THEN Ok(<<>>)
    ELSE Ok(Capacity_thin_volume_commitment(CHOOSE c \in self.capacity : TRUE))

Core_thin_volume_commitment(self) ==
    LET c == CapacityOrAbsent(self.capacity)
    IN  IF IsOk(c) THEN Ok(Capacity_thin_volume_commitment(Unwrap(c))) ELSE c

Core_thin_volume_commitment_initial(self) ==
    LET c == CapacityOrAbsent(self.capacity)
    IN  IF IsOk(c) THEN Ok(Capacity_thin_volume_commitment_initial(Unwrap(c)))
        ELSE c

Agents_core_capacity_is_absent(self) == Core_capacity_is_absent(self.core)
Agents_core_thin_pool_commitment(self) == Core_thin_pool_commitment(self.core)
Agents_core_thin_volume_commitment(self) ==
    Core_thin_volume_commitment(self.core)
Agents_core_thin_volume_commitment_initial(self) ==
    Core_thin_volume_commitment_initial(self.core)

Image_tag(self) == self.tag
IoEngine_log_level(self) == self.log_level

CoreValues_image_tag(self) == Image_tag(self.image)
CoreValues_io_engine_log_level(self) == IoEngine_log_level(self.io_engine)
CoreValues_core_capacity_is_absent(self) ==
    Agents_core_capacity_is_absent(self.agents)
CoreValues_core_thin_pool_commitment(self) ==
    Agents_core_thin_pool_commitment(self.agents)
CoreValues_core_thin_volume_commitment(self) ==
    Agents_core_thin_volume_commitment(self.agents)
CoreValues_core_thin_volume_commitment_initial(self) ==
    Agents_core_thin_volume_commitment_initial(self.agents)

image_tag(self) == CoreValues_image_tag(self.core)
io_engine_log_level(self) == CoreValues_io_engine_log_level(self.core)
core_capacity_is_absent(self) == CoreValues_core_capacity_is_absent(self.core)
core_thin_pool_commitment(self) ==
    CoreValues_core_thin_pool_commitment(self.core)
core_thin_volume_commitment(self) ==
    CoreValues_core_thin_volume_commitment(self.core)
core_thin_volume_commitment_initial(self) ==
    CoreValues_core_thin_volume_commitment_initial(self.core)

(***************************************************************************)
(* The documents handed to the decoder.  Keys are written as they stand in *)
(* a document, character by character.                                     *)
(***************************************************************************)
k_name == <<"n","a","m","e">>
k_version == <<"v","e","r","s","i","o","n">>
k_mayastor == <<"m","a","y","a","s","t","o","r">>
k_core == <<"c","o","r","e">>
k_image == <<"i","m","a","g","e">>
k_tag == <<"t","a","g">>
k_repo == <<"r","e","p","o">>
k_io_engine == <<"i","o","_","e","n","g","i","n","e">>
k_ioEngine == <<"i","o","E","n","g","i","n","e">>
k_logLevel == <<"l","o","g","L","e","v","e","l">>
k_log_level == <<"l","o","g","_","l","e","v","e","l">>
k_agents == <<"a","g","e","n","t","s">>
k_capacity == <<"c","a","p","a","c","i","t","y">>
k_thin == <<"t","h","i","n">>
k_poolCommitment == <<"p","o","o","l","C","o","m","m","i","t","m","e","n","t">>
k_pool_commitment ==
    <<"p","o","o","l","_","c","o","m","m","i","t","m","e","n","t">>
k_volumeCommitment ==
    <<"v","o","l","u","m","e","C","o","m","m","i","t","m","e","n","t">>
k_volume_commitment ==
    <<"v","o","l","u","m","e","_","c","o","m","m","i","t","m","e","n","t">>
k_volumeCommitmentInitial ==
    <<"v","o","l","u","m","e","C","o","m","m","i","t","m","e","n","t",
      "I","n","i","t","i","a","l">>
k_volume_commitment_initial ==
    <<"v","o","l","u","m","e","_","c","o","m","m","i","t","m","e","n","t",
      "_","i","n","i","t","i","a","l">>

\* string values: a percentage, and one with blanks and an upper-case letter
ThinVals == {<<"8","0","%">>, <<" ","4","0","P"," ">>}
TagVal == <<"v","2",".","6">>
RepoVal == <<"o","e","p">>
LogLevelVal == <<"i","n","f","o">>
ChartNames == {<<>>, <<"n">>}

\* the ways one string field of a mapping can stand in a document: missing,
\* under its document key with a string, under its document key with a
\* number, or under the other casing of the key
FieldOptions(key, otherKey, vals) ==
    {{}} \cup {{<<key, Str(v)>>} : v \in vals}
         \cup {{<<key, Num>>}}
         \cup {{<<otherKey, Str(CHOOSE v \in vals : TRUE)>>}}

\* the ways one sub-object can stand under a key: missing, null, a string,
\* or any of the given mappings
NodeOptions(key, maps) ==
    {{}} \cup {{<<key, Null>>}, {<<key, Str(TagVal)>>}}
         \cup {{<<key, m>>} : m \in maps}

ThinNodes ==
    {Obj(p \cup v \cup i) :
        p \in FieldOptions(k_poolCommitment, k_pool_commitment, ThinVals),
        v \in FieldOptions(k_volumeCommitment, k_volume_commitment, ThinVals),
        i \in FieldOptions(k_volumeCommitmentInitial,
                           k_volume_commitment_initial, ThinVals)}

CapacityNodes == {Obj(t) : t \in NodeOptions(k_thin, ThinNodes)}

CoreNodes == {Obj(c) : c \in NodeOptions(k_capacity, CapacityNodes)}

AgentsNodes == {Obj(c) : c \in NodeOptions(k_core, CoreNodes)}

ImageNodes ==
    {Obj(t) : t \in FieldOptions(k_tag, k_repo, {TagVal})}
        \cup {Obj({<<k_tag, Str(TagVal)>>, <<k_repo, Str(RepoVal)>>})}

IoEngineNodes ==
    {Obj(l) : l \in FieldOptions(k_logLevel, k_log_level, {LogLevelVal})}

\* the core chart's values: image, the io-engine object under either
\* spelling of its key, and agents
CoreValuesNodes ==
    {Obj(i \cup e \cup a) :
        i \in {{}} \cup {{<<k_image, m>>} : m \in ImageNodes},
        e \in {{}} \cup {{<<k, m>>} : k \in {k_io_engine, k_ioEngine},
                                      m \in IoEngineNodes},
        a \in {{}, {<<k_agents, Null>>}}
                \cup {{<<k_agents, m>>} : m \in AgentsNodes}}

\* values.yaml documents: the core chart's values under `mayastor`, under
\* `core`, or neither
ValuesDocs ==
    {EmptyMap, Obj({<<k_mayastor, Null>>})}
        \cup {Obj({<<k, m>>}) : k \in {k_mayastor, k_core}, m \in CoreValuesNodes}

VerAlphabet == {"0", "1", ".", "-"}

\* longer version strings, with pre-release and build parts
VersionSamples ==
    { <<"1",".","0",".","1","-","a">>,
      <<"1",".","0",".","1","-","0","1">>,
      <<"1",".","0",".","1","-","a",".","0">>,
      <<"1",".","0",".","1","-","a",".",".","0">>,
      <<"1",".","0",".","1","+","0","1">>,
      <<"1",".","0",".","1","+">>,
      <<"1",".","0",".","1","-","+","a">>,
      <<"1",".","0",".","1","-","a","+","b",".","0">>,
      <<"1",".","0",".","1","+","a","+","b">>,
      <<"1","2",".","0",".","1","0">>,
      <<"1",".","0",".","1"," ">>,
      <<"n","o","t","-","a","-","v","e","r","s","i","o","n">> }

VersionStrings ==
    UNION {[1..n -> VerAlphabet] : n \in 0..MaxVerLen} \cup VersionSamples

\* Chart.yaml documents
ManifestDocs ==
    {Obj(n \cup v) :
        n \in {{}, {<<k_name, Num>>}}
                \cup {{<<k_name, Str(c)>>} : c \in ChartNames},
        v \in {{}, {<<k_version, Num>>}}
                \cup {{<<k_version, Str(s)>>} : s \in VersionStrings}}

(***************************************************************************)
(* The state machine: a document is decoded once into its target type;     *)
(* the getters are then called on the decoded value in any order, any      *)
(* number of times.  first and last record, per getter, what its first and *)
(* its latest call returned, and ncalls how many times it was called.      *)
(***************************************************************************)
ChartAccessors == {"name", "version"}
ValuesAccessors ==
    {"image_tag", "io_engine_log_level", "core_capacity_is_absent",
     "core_thin_pool_commitment", "core_thin_volume_commitment",
     "core_thin_volume_commitment_initial"}
ThinAccessors ==
    {"core_thin_pool_commitment", "core_thin_volume_commitment",
     "core_thin_volume_commitment_initial"}
Accessors == ChartAccessors \cup ValuesAccessors

NotDecoded == [tag |-> "NotDecoded", val |-> <<>>, err |-> ""]
NotCalled == [tag |-> "NotCalled", val |-> <<>>, err |-> ""]
\* what a getter that is not a Result returns
Ret(v) == [tag |-> "Value", val |-> <<v>>, err |-> ""]

Called(a) == last[a].tag # "NotCalled"

Init ==
    /\ \/ target = "UmbrellaValues" /\ doc \in ValuesDocs
       \/ target = "Chart" /\ doc \in ManifestDocs
    /\ decoded = NotDecoded
    /\ first = [a \in Accessors |-> NotCalled]
    /\ last = [a \in Accessors |-> NotCalled]
    /\ ncalls = [a \in Accessors |-> 0]

DecodeChart ==
    /\ target = "Chart"
    /\ decoded = NotDecoded
    /\ decoded' = DeChart(doc)
    /\ UNCHANGED <<target, doc, first, last, ncalls>>

DecodeUmbrellaValues ==
    /\ target = "UmbrellaValues"
    /\ decoded = NotDecoded
    /\ decoded' = DeUmbrellaValues(doc)
    /\ UNCHANGED <<target, doc, first, last, ncalls>>

\* a call of getter a on the decoded value, which returned r
Record(a, r) ==
    /\ ncalls[a] < MaxCalls
    /\ ncalls' = [ncalls EXCEPT ![a] = @ + 1]
    /\ last' = [last EXCEPT ![a] = r]
    /\ first' = IF first[a].tag = "NotCalled"
                THEN [first EXCEPT ![a] = r] ELSE first

HasChart == target = "Chart" /\ IsOk(decoded)
HasValues == target = "UmbrellaValues" /\ IsOk(decoded)

Call_name ==
    /\ HasChart
    /\ Record("name", Ret(Chart_name(Unwrap(decoded))))
    /\ UNCHANGED <<target, doc, decoded>>

Call_version ==
    /\ HasChart
    /\ Record("version", Ret(Chart_version(Unwrap(decoded))))
    /\ UNCHANGED <<target, doc, decoded>>

Call_image_tag ==
    /\ HasValues
    /\ Record("image_tag", Ret(image_tag(Unwrap(decoded))))
    /\ UNCHANGED <<target, doc, decoded>>

Call_io_engine_log_level ==
    /\ HasValues
    /\ Record("io_engine_log_level", Ret(io_engine_log_level(Unwrap(decoded))))
    /\ UNCHANGED <<target, doc, decoded>>

Call_core_capacity_is_absent ==
    /\ HasValues
    /\ Record("core_capacity_is_absent",
              Ret(core_capacity_is_absent(Unwrap(decoded))))
    /\ UNCHANGED <<target, doc, decoded>>

\* as if the getter took the capacity out of the value (Option::take)
Mutant_Call_core_thin_pool_commitment_take ==
    /\ HasValues
    /\ Record("core_thin_pool_commitment",
              core_thin_pool_commitment(Unwrap(decoded)))
    /\ decoded' = Ok([core |-> [Unwrap(decoded).core EXCEPT
                                  !.agents.core.capacity = {}]])
    /\ UNCHANGED <<target, doc>>

Call_core_thin_pool_commitment ==
    /\ HasValues
    /\ Record("core_thin_pool_commitment",
              core_thin_pool_commitment(Unwrap(decoded)))
    /\ UNCHANGED <<target, doc, decoded>>

Call_core_thin_volume_commitment ==
    /\ HasValues
    /\ Record("core_thin_volume_commitment",
              core_thin_volume_commitment(Unwrap(decoded)))
    /\ UNCHANGED <<target, doc, decoded>>

Call_core_thin_volume_commitment_initial ==
    /\ HasValues
    /\ Record("core_thin_volume_commitment_initial",
              core_thin_volume_commitment_initial(Unwrap(decoded)))
    /\ UNCHANGED <<target, doc, decoded>>

Next ==
    \/ DecodeChart
    \/ DecodeUmbrellaValues
    \/ Call_name
    \/ Call_version
    \/ Call_image_tag
    \/ Call_io_engine_log_level
    \/ Call_core_capacity_is_absent
    \/ Call_core_thin_pool_commitment
    \/ Call_core_thin_volume_commitment
    \/ Call_core_thin_volume_commitment_initial

Spec == Init /\ [][Next]_vars

(***************************************************************************)
(* What a document holds, read by path, for stating the properties.        *)
(***************************************************************************)
Child(node, key) == IF HasKey(node, key) THEN node.map[key] ELSE Missing

RECURSIVE Path(_, _)
Path(node, path) ==
    IF path = <<>> THEN node ELSE Path(Child(node, Head(path)), Tail(path))

\* the nodes of a values document whose core chart's values stand under
\* the top-level key top and whose io-engine object stands under engine
ImageTagNode(top) == Path(doc, <<top, k_image, k_tag>>)
LogLevelNode(top, engine) == Path(doc, <<top, engine, k_logLevel>>)
AgentsCoreNode(top) == Path(doc, <<top, k_agents, k_core>>)
CapacityNode(top) == Path(doc, <<top, k_agents, k_core, k_capacity>>)
ThinNode(top) == Path(doc, <<top, k_agents, k_core, k_capacity, k_thin>>)
PoolNode(top) == Child(ThinNode(top), k_poolCommitment)
VolumeNode(top) == Child(ThinNode(top), k_volumeCommitment)
InitialNode(top) == Child(ThinNode(top), k_volumeCommitmentInitial)

\* image.tag, the engine's logLevel and the agents.core object are there
RequiredPresent(top, engine) ==
    /\ ImageTagNode(top).kind = "str"
    /\ LogLevelNode(top, engine).kind = "str"
    /\ AgentsCoreNode(top).kind = "map"

ThinComplete(top) ==
    /\ PoolNode(top).kind = "str"
    /\ VolumeNode(top).kind = "str"
    /\ InitialNode(top).kind = "str"

CapacityAbsent(top) == CapacityNode(top).kind \in {"missing", "null"}

ValuesDecoded == target = "UmbrellaValues" /\ decoded # NotDecoded
ChartDecoded == target = "Chart" /\ decoded # NotDecoded

NoneCalled == \A a \in Accessors : ~Called(a)

\* decode failed: a schema error, no value, and no getter ever ran
DecodeFailed == decoded = Err(SchemaError) /\ decoded.val = <<>> /\ NoneCalled

(***************************************************************************)
(* C1: a values document with image.tag, io_engine.logLevel and the        *)
(* agents.core object present but no agents.core.capacity key decodes;     *)
(* core_capacity_is_absent() returns true, each of the three thin getters  *)
(* fails with ThinProvisioningOptionsAbsent, and image_tag() and           *)
(* io_engine_log_level() return the document's values.                     *)
(***************************************************************************)
C1_CapacityMissingDefersError ==
    ( /\ ValuesDecoded
      /\ RequiredPresent(k_mayastor, k_io_engine)
      /\ CapacityNode(k_mayastor).kind = "missing" )
    => /\ IsOk(decoded)
       /\ Called("core_capacity_is_absent")
            => last["core_capacity_is_absent"] = Ret(TRUE)
       /\ \A a \in ThinAccessors :
            Called(a) => last[a] = Err(ThinProvisioningOptionsAbsent)
       /\ Called("image_tag")
            => last["image_tag"] = Ret(ImageTagNode(k_mayastor).str)
       /\ Called("io_engine_log_level")
            => last["io_engine_log_level"]
                 = Ret(LogLevelNode(k_mayastor, k_io_engine).str)

C1_Witness ==
    /\ ValuesDecoded
    /\ RequiredPresent(k_mayastor, k_io_engine)
    /\ CapacityNode(k_mayastor).kind = "missing"
    /\ \A a \in ValuesAccessors : Called(a)
    /\ last["core_thin_volume_commitment"] = Err(ThinProvisioningOptionsAbsent)

(***************************************************************************)
(* C2: with agents.core.capacity present and thin.poolCommitment = p,      *)
(* thin.volumeCommitment = v, thin.volumeCommitmentInitial = i all         *)
(* strings, the document decodes, core_capacity_is_absent() returns false  *)
(* and the three thin getters return exactly p, v and i, each its own.     *)
(***************************************************************************)
C2_ThinValuesReturnedUnchanged ==
    ( /\ ValuesDecoded
      /\ RequiredPresent(k_mayastor, k_io_engine)
      /\ ThinComplete(k_mayastor) )
    => /\ IsOk(decoded)
       /\ Called("core_capacity_is_absent")
            => last["core_capacity_is_absent"] = Ret(FALSE)
       /\ Called("core_thin_pool_commitment")
            => last["core_thin_pool_commitment"] = Ok(PoolNode(k_mayastor).str)
       /\ Called("core_thin_volume_commitment")
            => last["core_thin_volume_commitment"]
                 = Ok(VolumeNode(k_mayastor).str)
       /\ Called("core_thin_volume_commitment_initial")
            => last["core_thin_volume_commitment_initial"]
                 = Ok(InitialNode(k_mayastor).str)

C2_Witness ==
    /\ ValuesDecoded
    /\ ThinComplete(k_mayastor)
    /\ PoolNode(k_mayastor).str # VolumeNode(k_mayastor).str
    /\ VolumeNode(k_mayastor).str # InitialNode(k_mayastor).str
    /\ \A a \in ThinAccessors \cup {"core_capacity_is_absent"} : Called(a)
    /\ last["core_thin_volume_commitment"] = Ok(<<" ","4","0","P"," ">>)

(***************************************************************************)
(* C3 as claimed: a values document with the engine settings under the key *)
(* `ioEngine` (nested key `logLevel`), with image.tag and agents.core,     *)
(* decodes, and io_engine_log_level() returns ioEngine.logLevel.           *)
(***************************************************************************)
C3_Original_ioEngineKeyDecodes ==
    ( /\ ValuesDecoded
      /\ RequiredPresent(k_mayastor, k_ioEngine)
      /\ CapacityAbsent(k_mayastor) \/ ThinComplete(k_mayastor) )
    => /\ IsOk(decoded)
       /\ Called("io_engine_log_level")
            => last["io_engine_log_level"]
                 = Ret(LogLevelNode(k_mayastor, k_ioEngine).str)

(***************************************************************************)
(* C3 amended: the engine settings stand under the snake_case key          *)
(* `io_engine`, with the camelCase nested key `logLevel`: such a document, *)
(* with image.tag and agents.core, decodes and io_engine_log_level()       *)
(* returns io_engine.logLevel; under `ioEngine` the decode fails.          *)
(***************************************************************************)
C3_io_engineKeyDecodes ==
    /\ ( /\ ValuesDecoded
         /\ RequiredPresent(k_mayastor, k_io_engine)
         /\ CapacityAbsent(k_mayastor) \/ ThinComplete(k_mayastor) )
       => /\ IsOk(decoded)
          /\ Called("io_engine_log_level")
               => last["io_engine_log_level"]
                    = Ret(LogLevelNode(k_mayastor, k_io_engine).str)
    /\ ( /\ ValuesDecoded
         /\ ~HasKey(Child(doc, k_mayastor), k_io_engine) )
       => DecodeFailed

C3_Witness ==
    /\ ValuesDecoded
    /\ RequiredPresent(k_mayastor, k_io_engine)
    /\ Called("io_engine_log_level")
    /\ last["io_engine_log_level"] = Ret(<<"i","n","f","o">>)

(***************************************************************************)
(* C4: decoding is all-or-nothing: when image.tag, io_engine.logLevel, the *)
(* agents.core object or the core chart's object is missing or of the      *)
(* wrong type, the decode fails with a schema error, no value exists and   *)
(* no getter runs; nothing is filled in by default.                        *)
(***************************************************************************)
C4_MissingRequiredFailsDecode ==
    ( /\ ValuesDecoded
      /\ ~RequiredPresent(k_mayastor, k_io_engine) )
    => DecodeFailed

C4_Witness ==
    /\ ValuesDecoded
    /\ Path(doc, <<k_mayastor, k_image>>).kind = "map"
    /\ ImageTagNode(k_mayastor).kind = "missing"
    /\ LogLevelNode(k_mayastor, k_io_engine).kind = "str"
    /\ AgentsCoreNode(k_mayastor).kind = "map"
    /\ CapacityAbsent(k_mayastor)
    /\ DecodeFailed

(***************************************************************************)
(* C5: when agents.core.capacity is a mapping but `thin` or one of         *)
(* poolCommitment, volumeCommitment, volumeCommitmentInitial is missing,   *)
(* the decode of the whole document fails with a schema error: there is no *)
(* value with capacity absent, and no thin getter reports                  *)
(* ThinProvisioningOptionsAbsent.                                          *)
(***************************************************************************)
C5_IncompleteCapacityFailsDecode ==
    ( /\ ValuesDecoded
      /\ CapacityNode(k_mayastor).kind = "map"
      /\ ~ThinComplete(k_mayastor) )
    => /\ DecodeFailed
       /\ \A a \in ThinAccessors : last[a] # Err(ThinProvisioningOptionsAbsent)

C5_Witness ==
    /\ ValuesDecoded
    /\ RequiredPresent(k_mayastor, k_io_engine)
    /\ PoolNode(k_mayastor).kind = "str"
    /\ VolumeNode(k_mayastor).kind = "missing"
    /\ InitialNode(k_mayastor).kind = "str"
    /\ DecodeFailed

(***************************************************************************)
(* C6: the core chart's values are read only from under the top-level key  *)
(* `mayastor`: a document without that key fails to decode with a schema   *)
(* error, also when the same content stands under `core`.                  *)
(***************************************************************************)
C6_OnlyMayastorKey ==
    ( /\ ValuesDecoded
      /\ ~HasKey(doc, k_mayastor) )
    => DecodeFailed

C6_Witness ==
    /\ ValuesDecoded
    /\ ~HasKey(doc, k_mayastor)
    /\ RequiredPresent(k_core, k_io_engine)
    /\ ThinComplete(k_core)
    /\ DecodeFailed

(***************************************************************************)
(* The grammar of a semantic version, stated on the whole string.          *)
(***************************************************************************)
IsNumericId(s) ==
    /\ s # <<>>
    /\ \A k \in DOMAIN s : s[k] \in Digit
    /\ Len(s) > 1 => s[1] # "0"

\* dot-separated, non-empty segments of identifier characters; in a
\* pre-release a segment of digits only has no leading zero
IsIdentList(s, prerelease) ==
    /\ s # <<>>
    /\ \A k \in DOMAIN s : s[k] \in IdentChar \cup {"."}
    /\ s[1] # "." /\ s[Len(s)] # "."
    /\ \A k \in 1..(Len(s) - 1) : ~(s[k] = "." /\ s[k + 1] = ".")
    /\ prerelease =>
         \A i \in DOMAIN s : \A j \in i..Len(s) :
            ( /\ i = 1 \/ s[i - 1] = "."
              /\ j = Len(s) \/ s[j + 1] = "."
              /\ \A k \in i..j : s[k] \in Digit
              /\ j > i )
            => s[i] # "0"

IsVersionRest(r) ==
    \/ r = <<>>
    \/ r[1] = "+" /\ IsIdentList(Tail(r), FALSE)
    \/ /\ r[1] = "-"
       /\ \E k \in 2..Len(r) :
            /\ IsIdentList(SubSeq(r, 2, k), TRUE)
            /\ \/ k = Len(r)
               \/ /\ r[k + 1] = "+"
                  /\ IsIdentList(SubSeq(r, k + 2, Len(r)), FALSE)

\* s = major "." minor "." patch rest, with the dots at a and b and the
\* patch ending at c
IsSplit(s, a, b, c) ==
    /\ a < b /\ b < c
    /\ s[a] = "." /\ s[b] = "."
    /\ IsNumericId(SubSeq(s, 1, a - 1))
    /\ IsNumericId(SubSeq(s, a + 1, b - 1))
    /\ IsNumericId(SubSeq(s, b + 1, c))
    /\ IsVersionRest(SubSeq(s, c + 1, Len(s)))

IsSemver(s) == \E a, b, c \in DOMAIN s : IsSplit(s, a, b, c)

\* the three numbers of a valid version string
SemverNumbers(s) ==
    LET abc == CHOOSE t \in (DOMAIN s) \X (DOMAIN s) \X (DOMAIN s) :
                   IsSplit(s, t[1], t[2], t[3])
    IN  <<NumberValue(s, 1, abc[1]),
          NumberValue(s, abc[1] + 1, abc[2]),
          NumberValue(s, abc[2] + 1, abc[3] + 1)>>

NameNode == Child(doc, k_name)
VersionNode == Child(doc, k_version)

ValidManifest ==
    /\ NameNode.kind = "str"
    /\ VersionNode.kind = "str"
    /\ IsSemver(VersionNode.str)

(***************************************************************************)
(* C7: a manifest with a name n and a version string that is a valid       *)
(* semantic version decodes, name() returns n and version() is the parsed  *)
(* version; a manifest whose name is missing or whose version is not a     *)
(* valid semantic version fails to decode and yields no Chart.             *)
(***************************************************************************)
C7_ChartDecodesIffNameAndSemver ==
    ChartDecoded =>
        IF ValidManifest
        THEN /\ IsOk(decoded)
             /\ Called("name") => last["name"] = Ret(NameNode.str)
             /\ Called("version") =>
                  /\ last["version"].tag = "Value"
                  /\ LET v == Unwrap(last["version"])
                     IN  <<v.major, v.minor, v.patch>>
                            = SemverNumbers(VersionNode.str)
             /\ Unwrap(decoded).version.pre = <<>>
                  <=> "-" \notin Range(VersionNode.str)
                        \/ \E k \in DOMAIN VersionNode.str :
                              /\ VersionNode.str[k] = "+"
                              /\ "-" \notin Range(SubSeq(VersionNode.str, 1, k))
        ELSE DecodeFailed

C7_Witness ==
    /\ ChartDecoded
    /\ NameNode = Str(<<"n">>)
    /\ VersionNode = Str(<<"1","2",".","0",".","1","0">>)
    /\ ncalls["name"] = 1 /\ last["name"] = Ret(<<"n">>)
    /\ ncalls["version"] = 1
    /\ Unwrap(last["version"]).major = 12
    /\ Unwrap(last["version"]).patch = 10

\* a manifest with a malformed version, decoded and refused
C7_WitnessMalformed ==
    /\ ChartDecoded
    /\ NameNode = Str(<<"n">>)
    /\ VersionNode = Str(<<"n","o","t","-","a","-","v","e","r","s","i","o","n">>)
    /\ DecodeFailed

(***************************************************************************)
(* C8 as claimed: every decoded Chart has a non-empty name.                *)
(***************************************************************************)
C8_Original_NameNonEmpty ==
    (target = "Chart" /\ IsOk(decoded)) => Chart_name(Unwrap(decoded)) # <<>>

(***************************************************************************)
(* C8 amended: every decoded Chart has the manifest's `name` string as its *)
(* name, whatever its content: a manifest whose `name` is the empty string *)
(* (and whose version is valid) does yield a Chart, whose name() is empty; *)
(* only a missing or non-string name yields none.                          *)
(***************************************************************************)
C8_NameIsManifestString ==
    /\ (target = "Chart" /\ IsOk(decoded))
         => /\ NameNode.kind = "str"
            /\ Chart_name(Unwrap(decoded)) = NameNode.str
            /\ Called("name") => last["name"] = Ret(NameNode.str)
    /\ (ChartDecoded /\ NameNode = Str(<<>>) /\ VersionNode.kind = "str"
          /\ IsSemver(VersionNode.str))
         => IsOk(decoded)

C8_Witness ==
    /\ target = "Chart"
    /\ IsOk(decoded)
    /\ NameNode = Str(<<>>)
    /\ last["name"] = Ret(<<>>)

(***************************************************************************)
(* C9: getters are idempotent and free of side effects: once a getter has  *)
(* been called, every later call of it returns what its first call         *)
(* returned, and no step changes the decoded value after construction.     *)
(***************************************************************************)
C9_GettersIdempotent ==
    [][ /\ decoded # NotDecoded => decoded' = decoded
        /\ \A a \in Accessors :
             first[a].tag # "NotCalled"
               => first'[a] = first[a] /\ last'[a] = first[a] ]_vars

C9_Witness ==
    /\ HasValues
    /\ \A a \in ValuesAccessors : ncalls[a] = 2 /\ last[a] = first[a]
    /\ IsOk(last["core_thin_pool_commitment"])

\* the same on a Chart
C9_WitnessChart ==
    /\ HasChart
    /\ \A a \in ChartAccessors : ncalls[a] = 2 /\ last[a] = first[a]

(***************************************************************************)
(* C10: on every decoded value and in any call order the thin getters      *)
(* agree: core_capacity_is_absent() is true iff the document held no       *)
(* capacity subtree, and the three thin getters all succeed (exactly when  *)
(* it is false) or all fail with ThinProvisioningOptionsAbsent (exactly    *)
(* when it is true).                                                       *)
(***************************************************************************)
C10_ThinGettersAgree ==
    HasValues =>
        /\ Called("core_capacity_is_absent")
             => last["core_capacity_is_absent"]
                  = Ret(CapacityAbsent(k_mayastor))
        /\ \A a \in ThinAccessors :
             Called(a) =>
                /\ CapacityAbsent(k_mayastor)
                     <=> last[a] = Err(ThinProvisioningOptionsAbsent)
                /\ ~CapacityAbsent(k_mayastor) <=> IsOk(last[a])
        /\ \A a, b \in ThinAccessors :
             Called(a) /\ Called(b) => last[a].tag = last[b].tag
        /\ \A a \in ThinAccessors :
             Called(a) /\ Called("core_capacity_is_absent")
               => (Unwrap(last["core_capacity_is_absent"])
                     <=> last[a] = Err(ThinProvisioningOptionsAbsent))

C10_Witness ==
    /\ HasValues
    /\ \A a \in ThinAccessors \cup {"core_capacity_is_absent"} : Called(a)
    /\ last["core_capacity_is_absent"] = Ret(TRUE)
    /\ \A a \in ThinAccessors : last[a] = Err(ThinProvisioningOptionsAbsent)

\* and with the capacity there
C10_WitnessPresent ==
    /\ HasValues
    /\ \A a \in ThinAccessors \cup {"core_capacity_is_absent"} : Called(a)
    /\ last["core_capacity_is_absent"] = Ret(FALSE)
    /\ \A a \in ThinAccessors : IsOk(last[a])

====
